---- MODULE Spec2Model ----
(***************************************************************************)
(* Chemical formulation assistant (Streamlit demo), two scripts:           *)
(*   chemical_formulation_assistant.py             ("base")                *)
(*   chemical_formulation_assistant_mock_reset.py  ("mock_reset")          *)
(*                                                                         *)
(* Numbers.  A Python int is a TLA+ integer.  A Python float is an         *)
(* integer count of thousandths (60.0 is 60000), so that round(x, n) is a  *)
(* real rounding step of the model.                                        *)
(* Strings.  The emoji that prefix the verdict and error strings in the    *)
(* source, and the degree sign of the dictionary keys, are left out of the  *)
(* string literals; the rest is verbatim.                                  *)
(* Identifiers handed to the substring test are sequences of characters.   *)
(***************************************************************************)
EXTENDS Integers, Sequences, FiniteSets, TLC

VARIABLES
    \* ---- a function of one of the scripts called on its own
    called,       \* name of the function last called, "none" at the start
    mod,          \* the script whose definition was called
    args,         \* its argument
    ret,          \* what it returned
    \* ---- a session of one of the scripts
    script,       \* "base" | "mock_reset" | "none"
    key,          \* the OPENAI_API_KEY credential: "absent" | "invalid" | "valid"
    pc,           \* position of the script run
    client,       \* module-level client object
    session_state, \* st.session_state: key -> value, kept from run to run
    rng,          \* the random stream of this run
    pos,          \* number of draws taken from it in this run
    widgets,      \* widget values of the browser session
    metadata, formation, alerts, weather, lab_df, vendor_df,   \* data of the run
    selected_blend, compliance_result,       \* tab7
    estimate,     \* tab9: cost and efficacy
    insight,      \* value of the latest genai_summary call of the run
    panel,        \* per data panel: flag as read, draws consumed
    uncaught,     \* exception that ended the run, "none" otherwise
    first_run     \* no run of this session has ended yet

fnvars  == <<called, mod, args, ret>>
datavars == <<metadata, formation, alerts, weather, lab_df, vendor_df,
              selected_blend, compliance_result, estimate>>
appvars == <<script, key, pc, client, session_state, rng, pos, widgets,
             metadata, formation, alerts, weather, lab_df, vendor_df,
             selected_blend, compliance_result, estimate,
             insight, panel, uncaught, first_run>>
vars    == <<called, mod, args, ret, script, key, pc, client, session_state, rng,
             pos, widgets, metadata, formation, alerts, weather, lab_df,
             vendor_df, selected_blend, compliance_result, estimate, insight,
             panel, uncaught, first_run>>

(***************************************************************************)
(* Bounds                                                                  *)
(***************************************************************************)
\* random() is drawn from the grid 0/UGrid, 1/UGrid, ..., UGrid/UGrid
UGrid == 8
\* longest identifier tried on check_compliance, beside the blend names
MaxLen == 3
\* float error of one arithmetic operation, in thousandths (an
\* over-approximation: the real error is below 1e-12)
FloatErr == 1

(***************************************************************************)
(* The random module                                                       *)
(***************************************************************************)
\* One generator serves the whole process; a stream is fixed by its seed.
Streams == [seed : 0..UGrid, step : 0..UGrid]

\* the i-th draw (from 0) of a stream, as a numerator over UGrid
Draw(s, i) == (s.seed + i * s.step) % (UGrid + 1)

\* random.randint(a, b): an integer of a..b, both ends included
randint(a, b, u) == a + (u * (b - a)) \div UGrid

\* random.choice(seq): seq[randbelow(len(seq))]
choice(seq, u) == seq[1 + (u * Len(seq)) \div (UGrid + 1)]

\* uniform with the grid shifted by one step: overshoots b
uniform_overshoot(a, b, u) == a + ((b - a) * (u + 1)) \div UGrid

\* random.uniform(a, b) = a + (b - a) * random(); a, b and the result in
\* thousandths.  The end point b can be returned (floating-point rounding).
uniform(a, b, u) == a + ((b - a) * u) \div UGrid

\* round to the nearest multiple of q, ties to even
RoundTo(x, q) ==
    LET n == x \div q
        r == x - n * q
    IN  IF 2 * r < q THEN n * q
        ELSE IF 2 * r > q THEN (n + 1) * q
        ELSE IF n % 2 = 0 THEN n * q ELSE (n + 1) * q

\* the builtin round(x, ndigits) on a float given in thousandths
round(x, ndigits) ==
    RoundTo(x, CASE ndigits = 0 -> 1000
                 [] ndigits = 1 -> 100
                 [] ndigits = 2 -> 10
                 [] OTHER       -> 1)

(***************************************************************************)
(* Strings as sequences                                                    *)
(***************************************************************************)
\* Python's `sub in s` on strings
Contains(s, sub) ==
    \E i \in 0..(Len(s) - Len(sub)) :
        \A j \in 1..Len(sub) : s[i + j] = sub[j]

Blend_A == <<"B", "l", "e", "n", "d", " ", "A">>
Blend_B == <<"B", "l", "e", "n", "d", " ", "B">>
Blend_C == <<"B", "l", "e", "n", "d", " ", "C">>
Live_Blend_1 == <<"L", "i", "v", "e", " ", "B", "l", "e", "n", "d", " ", "1">>
Live_Blend_2 == <<"L", "i", "v", "e", " ", "B", "l", "e", "n", "d", " ", "2">>

(***************************************************************************)
(* Python values                                                           *)
(***************************************************************************)
PyStr(pieces) == [type |-> "str", val |-> pieces]
PyNone == [type |-> "NoneType", val |-> <<>>]

\* a pandas DataFrame is the sequence of its rows, a row maps column to value
Column(df, c) == [i \in 1..Len(df) |-> df[i][c]]

(***************************************************************************)
(* Scenario generators.  s is the stream, p the position of the first      *)
(* draw of the call.                                                       *)
(***************************************************************************)
UK_FIELDS == <<"Clair Ridge", "Forties", "Buzzard", "Nelson", "Elgin", "Judy",
    "Everest", "Armada", "Brent", "Andrew", "Ninian", "Magnus",
    "Shetland West", "Captain", "Culzean", "Golden Eagle", "Britannia",
    "Erskine", "Beryl", "Brae", "Ettrick", "Foinaven", "Gannet", "Harding",
    "Heather", "Janice", "Juno", "Lomond", "MonArb", "Piper", "Quads">>

simulate_field_metadata(field, s, p) ==
    ("Region" :> choice(<<"North Sea", "Midlands", "Wales", "Scotland">>, Draw(s, p)))
    @@ ("Reservoir Depth (m)" :> randint(1200, 4000, Draw(s, p + 1)))
    @@ ("Operator" :> choice(<<"BP", "Shell", "Total", "Equinor">>, Draw(s, p + 2)))
    @@ ("Startup Year" :> randint(1980, 2020, Draw(s, p + 3)))

simulate_formation_profile(s, p) ==
    ("Reservoir Temp (C)" :> round(uniform(60000, 120000, Draw(s, p)), 1))
    @@ ("Pressure (psi)" :> round(uniform(2000000, 5000000, Draw(s, p + 1)), 0))
    @@ ("Salinity (ppm)" :> round(uniform(30000000, 120000000, Draw(s, p + 2)), 0))
    @@ ("pH" :> round(uniform(5500, 7500, Draw(s, p + 3)), 1))

\* simulate_lab_tests with a blend missing from the catalog
simulate_lab_tests_two_blends(s, p) ==
    LET blends == <<Blend_A, Blend_B>>
        n == Len(blends)
    IN  [i \in 1..n |->
            ("Blend" :> blends[i])
            @@ ("Efficacy (%)" :> randint(70, 95, Draw(s, p + i - 1)))
            @@ ("Corrosion Rate (mpy)" :>
                    round(uniform(100, 500, Draw(s, p + n + i - 1)), 2))
            @@ ("Cost ($/bbl)" :>
                    round(uniform(1200, 3500, Draw(s, p + 2 * n + i - 1)), 2))]

\* base script: three columns of draws, column after column
simulate_lab_tests(s, p) ==
    LET blends == <<Blend_A, Blend_B, Blend_C>>
        n == Len(blends)
    IN  [i \in 1..n |->
            ("Blend" :> blends[i])
            @@ ("Efficacy (%)" :> randint(70, 95, Draw(s, p + i - 1)))
            @@ ("Corrosion Rate (mpy)" :>
                    round(uniform(100, 500, Draw(s, p + n + i - 1)), 2))
            @@ ("Cost ($/bbl)" :>
                    round(uniform(1200, 3500, Draw(s, p + 2 * n + i - 1)), 2))]

\* mock-reset script: three more columns
simulate_lab_tests_mock_reset(s, p) ==
    LET blends == <<Blend_A, Blend_B, Blend_C>>
        n == Len(blends)
    IN  [i \in 1..n |->
            ("Blend" :> blends[i])
            @@ ("Inhibitor (%)" :> randint(20, 50, Draw(s, p + i - 1)))
            @@ ("Solvent (%)" :> randint(20, 40, Draw(s, p + n + i - 1)))
            @@ ("Emulsifier (%)" :> randint(10, 30, Draw(s, p + 2 * n + i - 1)))
            @@ ("Efficacy (%)" :> randint(70, 95, Draw(s, p + 3 * n + i - 1)))
            @@ ("Corrosion Rate (mpy)" :>
                    round(uniform(100, 500, Draw(s, p + 4 * n + i - 1)), 2))
            @@ ("Cost ($/bbl)" :>
                    round(uniform(1200, 3500, Draw(s, p + 5 * n + i - 1)), 2))]

simulate_weather(s, p) ==
    ("Temperature (C)" :> randint(-2, 15, Draw(s, p)))
    @@ ("Wind Speed (km/h)" :> randint(10, 45, Draw(s, p + 1)))
    @@ ("Condition" :> choice(<<"Rainy", "Cloudy", "Clear", "Storm">>, Draw(s, p + 2)))

\* mock-reset script: other keys, floats, other conditions
simulate_weather_mock_reset(s, p) ==
    ("temperature" :> round(uniform(10000, 40000, Draw(s, p)), 1))
    @@ ("humidity" :> round(uniform(20000, 80000, Draw(s, p + 1)), 1))
    @@ ("wind_speed" :> round(uniform(0, 20000, Draw(s, p + 2)), 1))
    @@ ("condition" :> choice(<<"Sunny", "Cloudy", "Rainy", "Stormy">>, Draw(s, p + 3)))

simulate_vendor_prices(s, p) ==
    LET chemicals == <<"Inhibitor-X", "Solvent-Y", "Emulsifier-Z">>
        n == Len(chemicals)
    IN  [i \in 1..n |->
            ("Chemical" :> chemicals[i])
            @@ ("Unit Price ($/L)" :>
                    round(uniform(5000, 20000, Draw(s, p + i - 1)), 2))
            @@ ("Availability" :>
                    choice(<<"In Stock", "2 weeks", "4 weeks">>, Draw(s, p + n + i - 1)))]

\* mock-reset script: a table of literals, no draw
simulate_vendor_prices_mock_reset(s, p) ==
    LET chemicals == <<"Inhibitor-X", "Solvent-Y", "Emulsifier-Z">>
        price == <<6500, 12300, 17900>>
        avail == <<"In Stock", "2 weeks", "Out of Stock">>
    IN  [i \in 1..3 |->
            ("Chemical" :> chemicals[i])
            @@ ("Unit Price ($/L)" :> price[i])
            @@ ("Availability" :> avail[i])]

\* draws one call consumes
NDraws(fn, m) ==
    CASE fn = "simulate_field_metadata"    -> 4
      [] fn = "simulate_formation_profile" -> 4
      [] fn = "simulate_lab_tests"         -> IF m = "base" THEN 9 ELSE 18
      [] fn = "simulate_weather"           -> IF m = "base" THEN 3 ELSE 4
      [] fn = "simulate_vendor_prices"     -> IF m = "base" THEN 6 ELSE 0
      [] OTHER                             -> 0

(***************************************************************************)
(* Compliance rule and optimizer                                           *)
(***************************************************************************)
\* check_compliance with a case-insensitive test
check_compliance_any_case(blend_name) ==
    IF Contains(blend_name, <<"A">>) \/ Contains(blend_name, <<"a">>)
    THEN "Compliant with REACH"
    ELSE "Needs further review"

check_compliance(blend_name) ==
    IF Contains(blend_name, <<"A">>)
    THEN "Compliant with REACH"
    ELSE "Needs further review"

\* cost rounded to one decimal place
cost_one_decimal(ratio, e) == round(2000 + (100 - ratio) * 20 + e, 1)

\* tab9: cost = round(2.0 + (100 - ratio) * 0.02, 2); e is the float error
cost(ratio, e) == round(2000 + (100 - ratio) * 20 + e, 2)

\* efficacy falling with the ratio
efficacy_falling(ratio, e) == round(70000 + (100 - ratio) * 200 + e, 2)

\* tab9: efficacy = round(70 + ratio * 0.2, 2)
efficacy(ratio, e) == round(70000 + ratio * 200 + e, 2)

(***************************************************************************)
(* genai_summary                                                           *)
(***************************************************************************)
\* class -> base class, for the classes the call can meet
Base ==
    ("Exception" :> "BaseException")
    @@ ("KeyboardInterrupt" :> "BaseException")
    @@ ("OpenAIError" :> "Exception")
    @@ ("APIError" :> "OpenAIError")
    @@ ("APIConnectionError" :> "APIError")
    @@ ("APIStatusError" :> "APIError")
    @@ ("AuthenticationError" :> "APIStatusError")
    @@ ("RateLimitError" :> "APIStatusError")
    @@ ("LookupError" :> "Exception")
    @@ ("IndexError" :> "LookupError")
    @@ ("AttributeError" :> "Exception")

RECURSIVE issubclass(_, _)
issubclass(c, d) ==
    IF c = d THEN TRUE
    ELSE IF c \in DOMAIN Base THEN issubclass(Base[c], d)
    ELSE FALSE

\* what client.chat.completions.create can raise (line 69), and what
\* response.choices[0].message.content can raise (line 73)
CreateFaults  == {"APIConnectionError", "AuthenticationError", "RateLimitError"}
ExtractFaults == {"IndexError", "AttributeError"}

\* message.content of a reply: Optional[str]
Contents == {PyStr(<<"Use Inhibitor-X at 200 ppm">>), PyStr(<<>>), PyNone}

ApiOutcomes ==
    [kind : {"reply"}, content : Contents, exc : {"none"}]
    \cup [kind : {"create_raises"}, content : {PyNone}, exc : CreateFaults]
    \cup [kind : {"extract_raises"}, content : {PyNone}, exc : ExtractFaults]

ErrorMarker == "Error: "

\* an except clause for the client library's errors only
Catches_OpenAIError(exc) == issubclass(exc, "OpenAIError")

\* `except Exception as e`
Catches(exc) == issubclass(exc, "Exception")

genai_summary(prompt, o) ==
    IF o.kind = "reply"
    THEN [raised |-> "none", value |-> o.content]
    ELSE IF Catches(o.exc)
         THEN [raised |-> "none", value |-> PyStr(<<ErrorMarker, o.exc>>)]
         ELSE [raised |-> o.exc, value |-> PyNone]

(***************************************************************************)
(* Functions called on their own: every function of either script, on      *)
(* every input of a bounded set and every random stream.                   *)
(***************************************************************************)
Scripts == {"base", "mock_reset"}

Alphabet == {"A", "a", "B", " "}

Identifiers ==
    UNION {[1..k -> Alphabet] : k \in 0..MaxLen}
    \cup {Blend_A, Blend_B, Blend_C, Live_Blend_1, Live_Blend_2}

Prompts == {"Explain the following formation data and chemical implications",
            "Interpret the following lab test results for chemical blends"}

Err == (-FloatErr)..FloatErr

\* the harness makes one call in a run
Ready == called = "none"

Call_check_compliance ==
    \E m \in Scripts, s \in Identifiers :
        /\ Ready
        /\ called' = "check_compliance"
        /\ mod' = m
        /\ args' = s
        /\ ret' = check_compliance(s)
        /\ UNCHANGED appvars

Call_optimizer ==
    \E m \in Scripts, ratio \in 0..100, e1 \in Err, e2 \in Err :
        /\ Ready
        /\ called' = "optimizer"
        /\ mod' = m
        /\ args' = ratio
        /\ ret' = [cost |-> cost(ratio, e1), efficacy |-> efficacy(ratio, e2)]
        /\ UNCHANGED appvars

Call_simulate_field_metadata ==
    \E m \in Scripts, s \in Streams, f \in 1..Len(UK_FIELDS) :
        /\ Ready
        /\ called' = "simulate_field_metadata"
        /\ mod' = m
        /\ args' = s
        /\ ret' = simulate_field_metadata(UK_FIELDS[f], s, 0)
        /\ UNCHANGED appvars

Call_simulate_formation_profile ==
    \E m \in Scripts, s \in Streams :
        /\ Ready
        /\ called' = "simulate_formation_profile"
        /\ mod' = m
        /\ args' = s
        /\ ret' = simulate_formation_profile(s, 0)
        /\ UNCHANGED appvars

Call_simulate_lab_tests ==
    \E m \in Scripts, s \in Streams :
        /\ Ready
        /\ called' = "simulate_lab_tests"
        /\ mod' = m
        /\ args' = s
        /\ ret' = IF m = "base" THEN simulate_lab_tests(s, 0)
                   ELSE simulate_lab_tests_mock_reset(s, 0)
        /\ UNCHANGED appvars

Call_simulate_weather ==
    \E m \in Scripts, s \in Streams :
        /\ Ready
        /\ called' = "simulate_weather"
        /\ mod' = m
        /\ args' = s
        /\ ret' = IF m = "base" THEN simulate_weather(s, 0)
                   ELSE simulate_weather_mock_reset(s, 0)
        /\ UNCHANGED appvars

Call_simulate_vendor_prices ==
    \E m \in Scripts, s \in Streams :
        /\ Ready
        /\ called' = "simulate_vendor_prices"
        /\ mod' = m
        /\ args' = s
        /\ ret' = IF m = "base" THEN simulate_vendor_prices(s, 0)
                   ELSE simulate_vendor_prices_mock_reset(s, 0)
        /\ UNCHANGED appvars

Call_genai_summary ==
    \E m \in Scripts, prompt \in Prompts, o \in ApiOutcomes :
        /\ Ready
        /\ called' = "genai_summary"
        /\ mod' = m
        /\ args' = [prompt |-> prompt, outcome |-> o]
        /\ ret' = genai_summary(prompt, o)
        /\ UNCHANGED appvars

\* no session is running
NoSession ==
    /\ script = "none"
    /\ key = "absent"
    /\ pc = "idle"
    /\ client = "undefined"
    /\ session_state = [k \in {} |-> TRUE]
    /\ rng = [seed |-> 0, step |-> 0]
    /\ pos = 0
    /\ widgets = <<>>
    /\ metadata = <<>>
    /\ formation = <<>>
    /\ alerts = <<>>
    /\ weather = <<>>
    /\ lab_df = <<>>
    /\ vendor_df = <<>>
    /\ selected_blend = <<>>
    /\ compliance_result = ""
    /\ estimate = <<>>
    /\ insight = PyNone
    /\ panel = <<>>
    /\ uncaught = "none"
    /\ first_run = TRUE

NoCall ==
    /\ called = "none"
    /\ mod = "none"
    /\ args = <<>>
    /\ ret = <<>>

InitFn == NoCall /\ NoSession

NextFn ==
    \/ Call_check_compliance
    \/ Call_optimizer
    \/ Call_simulate_field_metadata
    \/ Call_simulate_formation_profile
    \/ Call_simulate_lab_tests
    \/ Call_simulate_weather
    \/ Call_simulate_vendor_prices
    \/ Call_genai_summary

SpecFn == InitFn /\ [][NextFn]_vars

(***************************************************************************)
(* Properties of the functions                                             *)
(***************************************************************************)
Compliant   == "Compliant with REACH"
NeedsReview == "Needs further review"

\* C1: check_compliance(s) is the 'compliant' verdict exactly when some
\* character of s is the upper-case "A", and the 'needs review' verdict
\* otherwise; "Blend A" is compliant, "Blend B" and "Blend C" need review.
C1_CompliantIffUpperA ==
    called = "check_compliance" =>
        /\ ret \in {Compliant, NeedsReview}
        /\ (ret = Compliant) <=> (\E i \in 1..Len(args) : args[i] = "A")
        /\ (args = Blend_A) => (ret = Compliant)
        /\ (args \in {Blend_B, Blend_C}) => (ret = NeedsReview)

\* a lower-case "a" alone was judged: needs review
C1_Witness ==
    /\ called = "check_compliance"
    /\ args = <<"a", "B">>
    /\ ret = NeedsReview

\* C2: for every ratio r of 0..100 and whatever the float error, the
\* optimizer yields 100*cost = 200 + 2*(100 - r) and 10*efficacy = 700 + 2*r,
\* cost 4.0 at r = 0 and 2.0 at r = 100 (floats in thousandths).
C2_OptimizerFormula ==
    called = "optimizer" =>
        /\ ret.cost = 10 * (200 + 2 * (100 - args))
        /\ ret.efficacy = 100 * (700 + 2 * args)
        /\ (args = 0) => (ret.cost = 4000)
        /\ (args = 100) => (ret.cost = 2000)

\* the slider default: cost 3.0, efficacy 80.0
C2_Witness ==
    /\ called = "optimizer"
    /\ args = 50
    /\ ret = [cost |-> 3000, efficacy |-> 80000]

\* C3: the optimizer is strictly monotonic: against the call made, every
\* larger ratio costs less and is more effective, every smaller ratio costs
\* more and is less effective.
C3_OptimizerMonotonic ==
    called = "optimizer" =>
        \A r2 \in 0..100, e \in Err :
            /\ (args < r2) => (ret.cost > cost(r2, e) /\ ret.efficacy < efficacy(r2, e))
            /\ (r2 < args) => (cost(r2, e) > ret.cost /\ efficacy(r2, e) < ret.efficacy)

\* a ratio with neighbours on both sides
C3_Witness ==
    /\ called = "optimizer"
    /\ args = 37
    /\ ret.cost = 3260
    /\ ret.efficacy = 77400

\* C4: every call of simulate_lab_tests, in either script and on every
\* stream, returns exactly 3 records named Blend A, Blend B, Blend C in
\* that order.
C4_ThreeBlendsInOrder ==
    called = "simulate_lab_tests" =>
        /\ Len(ret) = 3
        /\ Column(ret, "Blend") = <<Blend_A, Blend_B, Blend_C>>

\* a call whose draws differ from blend to blend
C4_Witness ==
    /\ called = "simulate_lab_tests"
    /\ mod = "base"
    /\ Len(ret) = 3
    /\ ret[1]["Efficacy (%)"] < ret[2]["Efficacy (%)"]
    /\ ret[2]["Efficacy (%)"] < ret[3]["Efficacy (%)"]

\* C5: every formation profile has, after rounding, 60 <= temperature <= 120,
\* 2000 <= pressure <= 5000, 30000 <= salinity <= 120000, 5.5 <= pH <= 7.5.
C5_FormationInRange ==
    called = "simulate_formation_profile" =>
        /\ 60000 <= ret["Reservoir Temp (C)"] /\ ret["Reservoir Temp (C)"] <= 120000
        /\ 2000000 <= ret["Pressure (psi)"] /\ ret["Pressure (psi)"] <= 5000000
        /\ 30000000 <= ret["Salinity (ppm)"] /\ ret["Salinity (ppm)"] <= 120000000
        /\ 5500 <= ret["pH"] /\ ret["pH"] <= 7500

\* the largest draw: the temperature reaches the upper end of its range
C5_Witness ==
    /\ called = "simulate_formation_profile"
    /\ ret["Reservoir Temp (C)"] = 120000

\* C6: genai_summary never raises: when the API call or the extraction of
\* the reply raises, it returns a string that begins with the error marker,
\* otherwise it returns the content of the reply.
C6_NeverRaises ==
    called = "genai_summary" =>
        /\ ret.raised = "none"
        /\ (args.outcome.kind # "reply") =>
              /\ ret.value.type = "str"
              /\ Len(ret.value.val) >= 1
              /\ Head(ret.value.val) = ErrorMarker
        /\ (args.outcome.kind = "reply") => (ret.value = args.outcome.content)

\* the extraction failed on a reply without choices and the error string
\* came back
C6_Witness ==
    /\ called = "genai_summary"
    /\ args.outcome.kind = "extract_raises"
    /\ args.outcome.exc = "IndexError"
    /\ ret.raised = "none"
    /\ ret.value = PyStr(<<ErrorMarker, "IndexError">>)

\* C8: every weather sample, in either script, has an integer temperature of
\* -2..15, an integer wind speed of 10..45 and a condition among Rainy,
\* Cloudy, Clear, Storm.
C8_WeatherInRange ==
    called = "simulate_weather" =>
        /\ {"Temperature (C)", "Wind Speed (km/h)", "Condition"} \subseteq DOMAIN ret
        /\ ret["Temperature (C)"] \in -2..15
        /\ ret["Wind Speed (km/h)"] \in 10..45
        /\ ret["Condition"] \in {"Rainy", "Cloudy", "Clear", "Storm"}

\* C9: every call of simulate_vendor_prices, in either script, returns one
\* quote per chemical Inhibitor-X, Solvent-Y, Emulsifier-Z, its price within
\* [5, 20] at two decimal places and drawn afresh (another stream gives
\* another table), its availability among In Stock, 2 weeks, 4 weeks.
C9_VendorQuotes ==
    called = "simulate_vendor_prices" =>
        /\ Column(ret, "Chemical") = <<"Inhibitor-X", "Solvent-Y", "Emulsifier-Z">>
        /\ \A i \in 1..Len(ret) :
              /\ 5000 <= ret[i]["Unit Price ($/L)"]
              /\ ret[i]["Unit Price ($/L)"] <= 20000
              /\ ret[i]["Unit Price ($/L)"] % 10 = 0
              /\ ret[i]["Availability"] \in {"In Stock", "2 weeks", "4 weeks"}
        /\ \E s2 \in Streams :
              (IF mod = "base" THEN simulate_vendor_prices(s2, 0)
               ELSE simulate_vendor_prices_mock_reset(s2, 0)) # ret

(***************************************************************************)
(* A browser session of one of the scripts.  Streamlit runs the script     *)
(* from the top on every interaction; st.session_state and the widget      *)
(* values outlive the run, every other name is rebound by the run.         *)
(***************************************************************************)
\* streams of a session's runs
SessionStreams == {s \in Streams : s.step = 1}

\* slider positions the user stops at
RatioSamples == {0, 50, 100}

\* fields of UK_FIELDS the user picks among
MaxFieldChoice == 2

Panels == {"formation", "weather", "lab", "vendor"}

Unrendered == [rendered |-> FALSE, read |-> FALSE, flag |-> FALSE, draws |-> 0]

\* OpenAI(api_key=os.getenv("OPENAI_API_KEY")): the constructor falls back on
\* the environment and raises OpenAIError when no key is found
OpenAI(api_key) ==
    IF api_key = "absent"
    THEN [raised |-> "OpenAIError", value |-> "undefined"]
    ELSE [raised |-> "none", value |-> "constructed"]

\* what the chat API can do for a client holding this key
ApiBehaviour(k) ==
    IF k = "valid"
    THEN {o \in ApiOutcomes : o.exc # "AuthenticationError"}
    ELSE {o \in ApiOutcomes : o.exc = "AuthenticationError"}

\* `'mock_mode' in st.session_state and st.session_state.mock_mode`
MockOn ==
    /\ "mock_mode" \in DOMAIN session_state
    /\ session_state["mock_mode"]

\* the literals of the "live" branches
LiveFormation ==
    ("Reservoir Temp (C)" :> "102 (live)")
    @@ ("Pressure (psi)" :> "4100 (live)")
    @@ ("Salinity (ppm)" :> "98000 (live)")
    @@ ("pH" :> "6.7 (live)")

LiveWeather ==
    ("Temperature (C)" :> 13)
    @@ ("Wind Speed (km/h)" :> 28)
    @@ ("Condition" :> "Clear")

LiveLab ==
    << ("Blend" :> Live_Blend_1) @@ ("Efficacy (%)" :> 91)
       @@ ("Corrosion Rate (mpy)" :> 200) @@ ("Cost ($/bbl)" :> 2100),
       ("Blend" :> Live_Blend_2) @@ ("Efficacy (%)" :> 89)
       @@ ("Corrosion Rate (mpy)" :> 180) @@ ("Cost ($/bbl)" :> 2400) >>

LiveVendor ==
    << ("Chemical" :> "Inhibitor-X") @@ ("Unit Price ($/L)" :> 6500)
       @@ ("Availability" :> "In Stock"),
       ("Chemical" :> "Solvent-Y") @@ ("Unit Price ($/L)" :> 12300)
       @@ ("Availability" :> "2 weeks"),
       ("Chemical" :> "Emulsifier-Z") @@ ("Unit Price ($/L)" :> 17900)
       @@ ("Availability" :> "Out of Stock") >>

MockAlerts == <<"High corrosion rate detected", "Injection pressure stable",
                "Scaling agent effective">>

LiveAlerts == <<"Real-time: Corrosion rate stable",
                "Real-time: Pressure fluctuating near threshold">>

\* st.info(genai_summary(prompt)), then on to the next tab; an exception
\* that genai_summary lets through ends the run
Advise(prompt, next) ==
    \E o \in ApiBehaviour(key) :
        LET r == genai_summary(prompt, o)
        IN  IF r.raised = "none"
            THEN /\ insight' = r.value
                 /\ pc' = next
                 /\ uncaught' = uncaught
            ELSE /\ insight' = insight
                 /\ pc' = "stopped"
                 /\ uncaught' = r.raised

\* a data panel was rendered: the flag it read, the draws it took
Rendered(p, n) ==
    panel' = [panel EXCEPT ![p] =
                [rendered |-> TRUE,
                 read     |-> script = "mock_reset",
                 flag     |-> script = "mock_reset" /\ MockOn,
                 draws    |-> n]]

InitApp ==
    /\ NoCall
    /\ script \in Scripts
    /\ key \in {"absent", "invalid", "valid"}
    /\ pc = "start"
    /\ client = "undefined"
    /\ session_state = [k \in {} |-> TRUE]
    /\ rng \in SessionStreams
    /\ pos = 0
    /\ widgets = [field |-> 1, blend |-> 1, ratio |-> 50, reset |-> FALSE,
                  checkbox |-> [default |-> TRUE, value |-> TRUE]]
    /\ metadata = <<>>
    /\ formation = <<>>
    /\ alerts = <<>>
    /\ weather = <<>>
    /\ lab_df = <<>>
    /\ vendor_df = <<>>
    /\ selected_blend = <<>>
    /\ compliance_result = ""
    /\ estimate = <<>>
    /\ insight = PyNone
    /\ panel = [p \in Panels |-> Unrendered]
    /\ uncaught = "none"
    /\ first_run = TRUE

\* lines 12-14 (base), 21-26 (mock_reset): page config, session flag,
\* load_dotenv, construction of the client
Startup ==
    /\ pc = "start"
    /\ session_state' =
          IF script = "mock_reset" /\ "mock_mode" \notin DOMAIN session_state
          THEN ("mock_mode" :> TRUE) @@ session_state
          ELSE session_state
    /\ LET c == OpenAI(key)
       IN  IF c.raised = "none"
           THEN /\ client' = c.value
                /\ pc' = "tab1"
                /\ uncaught' = uncaught
           ELSE /\ client' = client
                /\ pc' = "stopped"
                /\ uncaught' = c.raised
    /\ UNCHANGED <<first_run, script, key, rng, pos, widgets, insight, panel>>
    /\ UNCHANGED datavars
    /\ UNCHANGED fnvars

\* tab1: static text
Tab1 ==
    /\ pc = "tab1"
    /\ pc' = "tab2"
    /\ UNCHANGED <<first_run, script, key, client, session_state, rng, pos, widgets,
                   insight, panel, uncaught>>
    /\ UNCHANGED datavars
    /\ UNCHANGED fnvars

\* tab2: field selection and metadata
Tab2 ==
    /\ pc = "tab2"
    /\ metadata' = simulate_field_metadata(UK_FIELDS[widgets.field], rng, pos)
    /\ pos' = pos + NDraws("simulate_field_metadata", script)
    /\ pc' = "tab3"
    /\ UNCHANGED <<first_run, script, key, client, session_state, rng, widgets,
                   insight, panel, uncaught>>
    /\ UNCHANGED <<formation, alerts, weather, lab_df, vendor_df,
                   selected_blend, compliance_result, estimate>>
    /\ UNCHANGED fnvars

\* tab3: formation profile and its insight
Tab3 ==
    /\ pc = "tab3"
    /\ LET sim == script = "base" \/ MockOn
           n   == IF sim THEN NDraws("simulate_formation_profile", script) ELSE 0
       IN  /\ formation' = IF sim THEN simulate_formation_profile(rng, pos)
                           ELSE LiveFormation
           /\ pos' = pos + n
           /\ Rendered("formation", n)
    /\ Advise(<<"Explain the following formation data and chemical implications",
                formation'>>, "tab4")
    /\ UNCHANGED <<first_run, script, key, client, session_state, rng, widgets>>
    /\ UNCHANGED <<metadata, alerts, weather, lab_df, vendor_df,
                   selected_blend, compliance_result, estimate>>
    /\ UNCHANGED fnvars

\* tab4: alerts and their insight
Tab4 ==
    /\ pc = "tab4"
    /\ alerts' = IF script = "base" \/ MockOn THEN MockAlerts ELSE LiveAlerts
    /\ Advise(<<"Based on these live field conditions, recommend", alerts'>>, "tab5")
    /\ UNCHANGED <<first_run, script, key, client, session_state, rng, pos, widgets, panel>>
    /\ UNCHANGED <<metadata, formation, weather, lab_df, vendor_df,
                   selected_blend, compliance_result, estimate>>
    /\ UNCHANGED fnvars

\* tab5: weather and its insight
Tab5 ==
    /\ pc = "tab5"
    /\ LET sim == script = "base" \/ MockOn
           n   == IF sim THEN NDraws("simulate_weather", script) ELSE 0
       IN  /\ weather' = IF ~sim THEN LiveWeather
                         ELSE IF script = "base" THEN simulate_weather(rng, pos)
                         ELSE simulate_weather_mock_reset(rng, pos)
           /\ pos' = pos + n
           /\ Rendered("weather", n)
    /\ Advise(<<"Based on this weather data, what impact could it have",
                weather'>>, "tab6")
    /\ UNCHANGED <<first_run, script, key, client, session_state, rng, widgets>>
    /\ UNCHANGED <<metadata, formation, alerts, lab_df, vendor_df,
                   selected_blend, compliance_result, estimate>>
    /\ UNCHANGED fnvars

\* tab6: lab results and their insight
Tab6 ==
    /\ pc = "tab6"
    /\ LET sim == script = "base" \/ MockOn
           n   == IF sim THEN NDraws("simulate_lab_tests", script) ELSE 0
       IN  /\ lab_df' = IF ~sim THEN LiveLab
                        ELSE IF script = "base" THEN simulate_lab_tests(rng, pos)
                        ELSE simulate_lab_tests_mock_reset(rng, pos)
           /\ pos' = pos + n
           /\ Rendered("lab", n)
    /\ Advise(<<"Interpret the following lab test results for chemical blends",
                lab_df'>>, "tab7")
    /\ UNCHANGED <<first_run, script, key, client, session_state, rng, widgets>>
    /\ UNCHANGED <<metadata, formation, alerts, weather, vendor_df,
                   selected_blend, compliance_result, estimate>>
    /\ UNCHANGED fnvars

\* tab7: compliance verdict of the selected blend and its insight
Tab7 ==
    /\ pc = "tab7"
    /\ LET options == Column(lab_df, "Blend")
           index   == IF widgets.blend <= Len(options) THEN widgets.blend ELSE 1
       IN  /\ selected_blend' = options[index]
           /\ compliance_result' = check_compliance(options[index])
    /\ Advise(<<"Is this blend likely compliant with UK REACH?",
                selected_blend'>>, "tab8")
    /\ UNCHANGED <<first_run, script, key, client, session_state, rng, pos, widgets, panel>>
    /\ UNCHANGED <<metadata, formation, alerts, weather, lab_df, vendor_df,
                   estimate>>
    /\ UNCHANGED fnvars

\* tab8: blend recommendation
Tab8 ==
    /\ pc = "tab8"
    /\ Advise(<<"You are a chemical advisor. Based on the following:",
                UK_FIELDS[widgets.field], formation, weather, lab_df>>, "tab9")
    /\ UNCHANGED <<first_run, script, key, client, session_state, rng, pos, widgets, panel>>
    /\ UNCHANGED datavars
    /\ UNCHANGED fnvars

\* tab9: optimizer
Tab9 ==
    /\ pc = "tab9"
    /\ \E e1 \in Err, e2 \in Err :
          estimate' = [cost     |-> cost(widgets.ratio, e1),
                       efficacy |-> efficacy(widgets.ratio, e2)]
    /\ pc' = "tab10"
    /\ UNCHANGED <<first_run, script, key, client, session_state, rng, pos, widgets,
                   insight, panel, uncaught>>
    /\ UNCHANGED <<metadata, formation, alerts, weather, lab_df, vendor_df,
                   selected_blend, compliance_result>>
    /\ UNCHANGED fnvars

\* tab10: vendor prices
Tab10 ==
    /\ pc = "tab10"
    /\ LET sim == script = "base" \/ MockOn
           n   == IF sim THEN NDraws("simulate_vendor_prices", script) ELSE 0
       IN  /\ vendor_df' = IF ~sim THEN LiveVendor
                           ELSE IF script = "base" THEN simulate_vendor_prices(rng, pos)
                           ELSE simulate_vendor_prices_mock_reset(rng, pos)
           /\ pos' = pos + n
           /\ Rendered("vendor", n)
    /\ pc' = "tab11"
    /\ UNCHANGED <<first_run, script, key, client, session_state, rng, widgets,
                   insight, uncaught>>
    /\ UNCHANGED <<metadata, formation, alerts, weather, lab_df,
                   selected_blend, compliance_result, estimate>>
    /\ UNCHANGED fnvars

\* tab11: final report, display only
Tab11 ==
    /\ pc = "tab11"
    /\ pc' = "tab12"
    /\ UNCHANGED <<first_run, script, key, client, session_state, rng, pos, widgets,
                   insight, panel, uncaught>>
    /\ UNCHANGED datavars
    /\ UNCHANGED fnvars

\* value of the "Enable Mock Mode" checkbox drawn with this default: a
\* widget drawn with another default than before is a new widget
checkbox(default) ==
    IF widgets.checkbox.default = default
    THEN widgets.checkbox.value
    ELSE default

\* tab12 of the base script: the button reruns, the checkbox is not read
Tab12 ==
    /\ pc = "tab12"
    /\ script = "base"
    /\ pc' = IF widgets.reset THEN "rerun" ELSE "done"
    /\ widgets' = [widgets EXCEPT !.checkbox =
                      [default |-> TRUE, value |-> checkbox(TRUE)]]
    /\ UNCHANGED <<first_run, script, key, client, session_state, rng, pos,
                   insight, panel, uncaught>>
    /\ UNCHANGED datavars
    /\ UNCHANGED fnvars

\* tab12 of the mock-reset script storing the checkbox value without
\* asking for a rerun
Tab12_mock_reset_no_rerun ==
    /\ pc = "tab12"
    /\ script = "mock_reset"
    /\ LET st0 == IF "mock_mode" \notin DOMAIN session_state
                  THEN ("mock_mode" :> TRUE) @@ session_state
                  ELSE session_state
           new_value == checkbox(st0["mock_mode"])
       IN  /\ widgets' = [widgets EXCEPT !.checkbox =
                            [default |-> st0["mock_mode"], value |-> new_value]]
           /\ session_state' = [st0 EXCEPT !["mock_mode"] = new_value]
           /\ pc' = IF widgets.reset THEN "rerun" ELSE "done"
    /\ UNCHANGED <<first_run, script, key, client, rng, pos, insight, panel,
                   uncaught>>
    /\ UNCHANGED datavars
    /\ UNCHANGED fnvars

\* tab12 of the mock-reset script, lines 260-273
Tab12_mock_reset ==
    /\ pc = "tab12"
    /\ script = "mock_reset"
    /\ LET st0 == IF "mock_mode" \notin DOMAIN session_state
                  THEN ("mock_mode" :> TRUE) @@ session_state
                  ELSE session_state
           new_value == checkbox(st0["mock_mode"])
       IN  /\ widgets' = [widgets EXCEPT !.checkbox =
                            [default |-> st0["mock_mode"], value |-> new_value]]
           /\ IF new_value # st0["mock_mode"]
              THEN /\ session_state' = [st0 EXCEPT !["mock_mode"] = new_value]
                   /\ pc' = "rerun"
              ELSE /\ session_state' = st0
                   /\ pc' = IF widgets.reset THEN "rerun" ELSE "done"
    /\ UNCHANGED <<first_run, script, key, client, rng, pos, insight, panel, uncaught>>
    /\ UNCHANGED datavars
    /\ UNCHANGED fnvars

\* the script runner starts a run: module names are unbound again
NewRun(w, st, first) ==
    /\ pc' = "start"
    /\ widgets' = w
    /\ session_state' = st
    /\ client' = "undefined"
    /\ rng' \in SessionStreams
    /\ pos' = 0
    /\ metadata' = <<>>
    /\ formation' = <<>>
    /\ alerts' = <<>>
    /\ weather' = <<>>
    /\ lab_df' = <<>>
    /\ vendor_df' = <<>>
    /\ selected_blend' = <<>>
    /\ compliance_result' = ""
    /\ estimate' = <<>>
    /\ insight' = PyNone
    /\ panel' = [p \in Panels |-> Unrendered]
    /\ uncaught' = "none"
    /\ first_run' = first
    /\ UNCHANGED <<script, key>>
    /\ UNCHANGED fnvars

\* st.rerun() / st.experimental_rerun(): the run ends, the next starts
Rerun ==
    /\ pc = "rerun"
    /\ NewRun([widgets EXCEPT !.reset = FALSE], session_state, FALSE)

\* ---- the user
SelectField ==
    /\ pc = "done"
    /\ \E f \in 1..MaxFieldChoice :
          /\ f # widgets.field
          /\ NewRun([widgets EXCEPT !.field = f, !.reset = FALSE], session_state, FALSE)

SelectBlend ==
    /\ pc = "done"
    /\ \E b \in 1..Len(lab_df) :
          /\ b # widgets.blend
          /\ NewRun([widgets EXCEPT !.blend = b, !.reset = FALSE], session_state, FALSE)

MoveSlider ==
    /\ pc = "done"
    /\ \E r \in RatioSamples :
          /\ r # widgets.ratio
          /\ NewRun([widgets EXCEPT !.ratio = r, !.reset = FALSE], session_state, FALSE)

ToggleCheckbox ==
    /\ pc = "done"
    /\ NewRun([widgets EXCEPT !.checkbox.value = ~@, !.reset = FALSE],
              session_state, FALSE)

ClickReset ==
    /\ pc = "done"
    /\ NewRun([widgets EXCEPT !.reset = TRUE], session_state, FALSE)

\* the page is loaded anew: a new session
Reload ==
    /\ pc \in {"done", "stopped"}
    /\ NewRun([field |-> 1, blend |-> 1, ratio |-> 50, reset |-> FALSE,
               checkbox |-> [default |-> TRUE, value |-> TRUE]],
              [k \in {} |-> TRUE], TRUE)

NextApp ==
    \/ Startup
    \/ Tab1
    \/ Tab2
    \/ Tab3
    \/ Tab4
    \/ Tab5
    \/ Tab6
    \/ Tab7
    \/ Tab8
    \/ Tab9
    \/ Tab10
    \/ Tab11
    \/ Tab12
    \/ Tab12_mock_reset
    \/ Rerun
    \/ SelectField
    \/ SelectBlend
    \/ MoveSlider
    \/ ToggleCheckbox
    \/ ClickReset
    \/ Reload

SpecApp == InitApp /\ [][NextApp]_vars

(***************************************************************************)
(* Properties of a session                                                 *)
(***************************************************************************)
\* the run is past its start-up lines
StartedUp == pc \notin {"start", "rerun"}

\* the run is past the first advisory call (tab3)
Advised == pc \in {"tab4", "tab5", "tab6", "tab7", "tab8", "tab9", "tab10",
                   "tab11", "tab12", "done"}

\* C7: with the credential absent the start-up lines complete, client
\* construction included, no exception ends the run, and the fault shows
\* only as the error string of an advisory call.
C7_MissingKeyNoCrash ==
    (key = "absent" /\ StartedUp) =>
        /\ uncaught = "none"
        /\ client = "constructed"
        /\ Advised =>
              /\ insight.type = "str"
              /\ Len(insight.val) >= 1
              /\ Head(insight.val) = ErrorMarker

\* the four data panels of the run are drawn, tab12 has not run yet
PanelsDrawn == pc \in {"tab11", "tab12"}

\* C10: in the mock-reset script, once the four data panels of a run are
\* drawn, each has read the same value of mock_mode, the value the flag
\* still has; with the flag on each panel holds randomly generated values
\* (it took draws from the stream), with the flag off each holds its fixed
\* "live" literal and took no draw.
C10_PanelsFollowFlag ==
    (script = "mock_reset" /\ PanelsDrawn) =>
        /\ \A p \in Panels :
              /\ panel[p].rendered
              /\ panel[p].read
              /\ panel[p].flag = MockOn
        /\ MockOn => \A p \in Panels : panel[p].draws > 0
        /\ ~MockOn =>
              /\ \A p \in Panels : panel[p].draws = 0
              /\ formation = LiveFormation
              /\ weather = LiveWeather
              /\ lab_df = LiveLab
              /\ vendor_df = LiveVendor


HasFlag == "mock_mode" \in DOMAIN session_state

\* some data panel of the run is drawn and tab12 has not run yet
InPanels == pc \in {"tab4", "tab5", "tab6", "tab7", "tab8", "tab9", "tab10",
                    "tab11", "tab12"}

\* what holds of the flag in every state of a mock-reset session
C11_FlagState ==
    script = "mock_reset" =>
        /\ (pc # "start") => HasFlag
        /\ (first_run /\ pc # "start") => session_state["mock_mode"]
        /\ (pc \in {"done", "rerun"}) =>
              session_state["mock_mode"] = widgets.checkbox.value
        /\ InPanels =>
              \A p \in Panels :
                  panel[p].rendered =>
                      (panel[p].read /\ panel[p].flag = session_state["mock_mode"])
        /\ PanelsDrawn => \A p \in Panels : panel[p].rendered

\* what holds of every step of a mock-reset session
C11_FlagStep ==
    script = "mock_reset" =>
        /\ (HasFlag /\ HasFlag' /\ session_state'["mock_mode"] # session_state["mock_mode"]) =>
              /\ pc = "tab12"
              /\ checkbox(session_state["mock_mode"]) # session_state["mock_mode"]
        /\ (pc = "tab12" /\ checkbox(session_state["mock_mode"]) # session_state["mock_mode"]) =>
              /\ session_state'["mock_mode"] = checkbox(session_state["mock_mode"])
              /\ pc' = "rerun"
        /\ (pc = "tab12" /\ widgets.reset) =>
              /\ pc' = "rerun"
              /\ session_state' = session_state
        /\ (pc = "rerun") =>
              /\ pc' = "start"
              /\ session_state' = session_state

\* C11: in the mock-reset script the flag mock_mode is true throughout the
\* first run of a session; it changes only in the settings panel and only
\* when the checkbox value differs from it, is then set to the checkbox value
\* and a rerun is requested; once the settings panel has run the flag equals
\* the checkbox value; the run after a toggle keeps the new value and every
\* data panel reads it; a "Reset Simulation" click requests a rerun and
\* leaves the flag unchanged.
C11_FlagFollowsCheckbox == []C11_FlagState /\ [][C11_FlagStep]_vars

\* the run after the box was unticked: all four panels drawn from the flag
\* now off
C11_Witness ==
    /\ script = "mock_reset"
    /\ ~first_run
    /\ pc = "tab11"
    /\ ~session_state["mock_mode"]
    /\ widgets.checkbox = [default |-> TRUE, value |-> FALSE]
    /\ \A p \in Panels : panel[p].read /\ ~panel[p].flag

====
